---- MODULE Spec2Model ----
(***************************************************************************)
(* Run-lifecycle client of the Execute Pipeline page                       *)
(* (src/src/app/execute/page.tsx): endpoint lookup in the stored endpoint  *)
(* list, path-parameter filling, submit, status polling driven by the      *)
(* polling effect, results fetch and reset.                                *)
(*                                                                         *)
(* Strings are sequences of one-character strings, so that startsWith,     *)
(* split, replace and lastIndexOf are computed as JavaScript computes them.*)
(***************************************************************************)
EXTENDS Integers, Sequences, FiniteSets, Bags, TLC

(***************************************************************************)
(* Bounds of the model.                                                    *)
(***************************************************************************)
\* number of runs the backend hands out (successful submits)
MaxRuns == 2
\* number of status responses the backend delivers while the first run is observed
MaxPolls == 4
\* number of status responses the backend delivers after the first run was abandoned
MaxPollsAfter == 2
\* the same two bounds where the stored endpoint list varies and is edited
MaxRunsReg == 1
MaxPollsReg == 1
\* number of edits of the stored endpoint list
MaxEdits == 1
\* number of downloads that await their response or left their object URL unrevoked
MaxDownloads == 1
\* the same budget where downloads run side by side
MaxConcurrent == 2

(***************************************************************************)
(* String helpers (JavaScript String methods).                             *)
(***************************************************************************)
\* s.startsWith(p)
StartsWith(s, p) ==
    /\ Len(p) <= Len(s)
    /\ SubSeq(s, 1, Len(p)) = p

\* s.indexOf(pat), 1-based; 0 when pat does not occur (JavaScript's -1)
IndexOf(s, pat) ==
    LET hits == {i \in 1..(Len(s) - Len(pat) + 1) : SubSeq(s, i, i + Len(pat) - 1) = pat}
    IN IF hits = {} THEN 0 ELSE CHOOSE i \in hits : \A j \in hits : i <= j

\* s.split(ch)[0]: the part of s before the first occurrence of ch
SplitFirst(s, ch) ==
    LET i == IndexOf(s, <<ch>>)
    IN IF i = 0 THEN s ELSE SubSeq(s, 1, i - 1)

\* s.replace(pat, rep) with a string pattern: only the first occurrence
ReplaceFirst(s, pat, rep) ==
    LET i == IndexOf(s, pat)
    IN IF i = 0 THEN s
       ELSE SubSeq(s, 1, i - 1) \o rep \o SubSeq(s, i + Len(pat), Len(s))

(***************************************************************************)
(* Path keys the page asks for, and path templates a user may store.       *)
(***************************************************************************)
RunIdKey == <<"r","u","n","_","i","d">>
FilenameKey == <<"f","i","l","e","n","a","m","e">>

ProcessKey == <<"/","p","r","o","c","e","s","s">>
StatusKey == <<"/","s","t","a","t","u","s","/",":">> \o RunIdKey
ResultsKey == <<"/","r","e","s","u","l","t","s","/",":">> \o RunIdKey
DownloadFileKey ==
    <<"/","d","o","w","n","l","o","a","d","/",":">> \o RunIdKey \o <<"/",":">> \o FilenameKey
DownloadZipKey ==
    <<"/","d","o","w","n","l","o","a","d","/","z","i","p","/",":">> \o RunIdKey

\* the same operations written with the brace placeholder syntax
StatusBrace == <<"/","s","t","a","t","u","s","/","{">> \o RunIdKey \o <<"}">>
ResultsBrace == <<"/","r","e","s","u","l","t","s","/","{">> \o RunIdKey \o <<"}">>
\* a template that names the run twice
StatusTwice == StatusKey \o <<"/",":">> \o RunIdKey

PathKeys == {ProcessKey, StatusKey, ResultsKey, DownloadFileKey, DownloadZipKey}
Methods == {"GET", "POST", "DELETE"}

(***************************************************************************)
(* The endpoint store (localStorage key 'excelFlowApiEndpoints').          *)
(* A store is absent (getItem returns null) or holds a list of endpoint    *)
(* definitions; ids are positive.                                          *)
(***************************************************************************)
Ep(i, p, m) == [id |-> i, path |-> p, method |-> m]

\* the value of a lookup that finds nothing (JavaScript undefined)
NoEndpoint == [id |-> 0, path |-> <<>>, method |-> "NONE"]

Store(l) == [present |-> TRUE, list |-> l]
AbsentStore == [present |-> FALSE, list |-> <<>>]

\* the documented endpoints, the single-file download stored before the zip
DocList ==
    << Ep(1, ProcessKey, "POST"), Ep(2, StatusKey, "GET"), Ep(3, ResultsKey, "GET"),
       Ep(4, DownloadFileKey, "GET"), Ep(5, DownloadZipKey, "GET") >>
\* the zip download stored first, status and results with brace placeholders
BraceList ==
    << Ep(1, ProcessKey, "POST"), Ep(2, StatusBrace, "GET"), Ep(3, ResultsBrace, "GET"),
       Ep(4, DownloadZipKey, "GET"), Ep(5, DownloadFileKey, "GET") >>
\* a status template naming the run twice, results stored under the wrong method
TwiceList ==
    << Ep(1, ProcessKey, "POST"), Ep(2, StatusTwice, "GET"), Ep(3, ResultsKey, "POST") >>
\* no status definition at all
NoStatusList ==
    << Ep(1, ProcessKey, "POST"), Ep(3, ResultsKey, "GET") >>
\* the status operation defined twice, once in each placeholder syntax
TwoStatusList ==
    << Ep(1, ProcessKey, "POST"), Ep(2, StatusBrace, "GET"), Ep(3, StatusKey, "GET"),
       Ep(4, ResultsKey, "GET") >>

Stores == {Store(DocList), Store(BraceList), Store(TwiceList), Store(NoStatusList),
           Store(TwoStatusList), Store(<<>>), AbsentStore}

\* ep.path.split(':')[0].split('{')[0]
StaticPrefix(path) == SplitFirst(SplitFirst(path, ":"), "{")

\* a lookup that forgets to compare the method
MatchesAnyMethod(ep, pathKey, method) ==
    StartsWith(pathKey, StaticPrefix(ep.path))

\* the predicate of endpoints.find(...)
Matches(ep, pathKey, method) ==
    /\ StartsWith(pathKey, StaticPrefix(ep.path))
    /\ ep.method = method

\* a lookup that keeps the last match instead of the first
FindLast(list, i, pathKey, method) ==
    LET hits == {k \in i..Len(list) : Matches(list[k], pathKey, method)}
    IN IF hits = {} THEN NoEndpoint
       ELSE list[CHOOSE k \in hits : \A j \in hits : j <= k]

\* Array.prototype.find from position i on
RECURSIVE FindFrom(_, _, _, _)
FindFrom(list, i, pathKey, method) ==
    IF i > Len(list) THEN NoEndpoint
    ELSE IF Matches(list[i], pathKey, method) THEN list[i]
    ELSE FindFrom(list, i + 1, pathKey, method)

\* getApiEndpoint over a given store
Resolve(store, pathKey, method) ==
    IF store.present THEN FindFrom(store.list, 1, pathKey, method) ELSE NoEndpoint

\* one iteration of the loop of fillPathParameters
FillOne(path, key, value) ==
    ReplaceFirst(ReplaceFirst(path, <<":">> \o key, value),
                 <<"{">> \o key \o <<"}">>, value)

\* a loop that stops after the first key of params
fillFirstParameter(pathWithParams, params) ==
    IF params = <<>> THEN pathWithParams
    ELSE FillOne(pathWithParams, params[1][1], params[1][2])

\* fillPathParameters: params is the list of <<key, value>> in insertion order
RECURSIVE fillPathParameters(_, _)
fillPathParameters(pathWithParams, params) ==
    IF params = <<>> THEN pathWithParams
    ELSE fillPathParameters(FillOne(pathWithParams, params[1][1], params[1][2]),
                            Tail(params))

FASTAPI_BASE_URL ==
    <<"h","t","t","p",":","/","/","l","o","c","a","l","h","o","s","t",":","8","0","0","0">>

\* the run identifier the backend hands out for the n-th run, as a string
RunIdStr(r) == <<"r", ToString(r)>>

(***************************************************************************)
(* The results mapping of fetchFinalResults.                               *)
(* The outputs member of a results response is a list of <<key, value>>    *)
(* pairs in the order the backend sent them, keys distinct; the value of   *)
(* an outer pair is the inner list of <<fileType, backendFilePath>> pairs. *)
(***************************************************************************)
Digits == <<"0","1","2","3","4","5","6","7","8","9">>
LowerCase == <<"a","b","c","d","e","f","g","h","i","j","k","l","m","n","o","p","q","r","s","t","u","v","w","x","y","z">>
UpperCase == <<"A","B","C","D","E","F","G","H","I","J","K","L","M","N","O","P","Q","R","S","T","U","V","W","X","Y","Z">>

\* the position of character c in the sequence alphabet, 0 when it is not in it
PositionIn(alphabet, c) ==
    IF \E i \in 1..Len(alphabet) : alphabet[i] = c
    THEN CHOOSE i \in 1..Len(alphabet) : alphabet[i] = c
    ELSE 0

\* c.toUpperCase() for one character
ToUpperCase(c) ==
    IF PositionIn(LowerCase, c) # 0 THEN UpperCase[PositionIn(LowerCase, c)] ELSE c

\* the character class \w of a regular expression
IsWordChar(c) ==
    \/ PositionIn(LowerCase, c) # 0
    \/ PositionIn(UpperCase, c) # 0
    \/ PositionIn(Digits, c) # 0
    \/ c = "_"

\* s.lastIndexOf(ch), 1-based; 0 when ch does not occur (JavaScript's -1)
LastIndexOf(s, ch) ==
    LET hits == {i \in 1..Len(s) : s[i] = ch}
    IN IF hits = {} THEN 0 ELSE CHOOSE i \in hits : \A j \in hits : j <= i

\* backendFilePath.substring(backendFilePath.lastIndexOf('/') + 1)
Basename(backendFilePath) ==
    SubSeq(backendFilePath, LastIndexOf(backendFilePath, "/") + 1, Len(backendFilePath))

\* fileType.replace(/_/g, ' ').replace(/\b\w/g, l => l.toUpperCase())
ReadableType(fileType) ==
    LET spaced == [i \in 1..Len(fileType) |->
                      IF fileType[i] = "_" THEN " " ELSE fileType[i]]
    IN [i \in 1..Len(spaced) |->
           IF IsWordChar(spaced[i]) /\ (i = 1 \/ ~IsWordChar(spaced[i - 1]))
           THEN ToUpperCase(spaced[i])
           ELSE spaced[i]]

\* the number a string of digits denotes
RECURSIVE KeyValue(_)
KeyValue(key) ==
    IF key = <<>> THEN 0
    ELSE 10 * KeyValue(SubSeq(key, 1, Len(key) - 1)) + (PositionIn(Digits, key[Len(key)]) - 1)

\* whether a property key is an array index (a canonical numeric string below
\* 2^32 - 1): such keys are enumerated first, in ascending numeric order. Keys of
\* up to nine digits are all below that limit; longer numeric keys are not sent.
IsArrayIndex(key) ==
    /\ key # <<>>
    /\ \A i \in 1..Len(key) : PositionIn(Digits, key[i]) # 0
    /\ (Len(key) = 1 \/ key[1] # "0")
    /\ Len(key) <= 9

\* the positions in idx, ordered by the numeric value of their keys
RECURSIVE AscendingKeys(_, _)
AscendingKeys(obj, idx) ==
    IF idx = {} THEN <<>>
    ELSE LET m == CHOOSE i \in idx :
                      \A j \in idx : KeyValue(obj[i][1]) <= KeyValue(obj[j][1])
         IN <<obj[m]>> \o AscendingKeys(obj, idx \ {m})

\* Object.entries(obj) of an object parsed from JSON: array-index keys first in
\* ascending order, then the other keys in the order they were received
ObjectEntries(obj) ==
    AscendingKeys(obj, {i \in 1..Len(obj) : IsArrayIndex(obj[i][1])})
        \o SelectSeq(obj, LAMBDA e : ~IsArrayIndex(e[1]))

\* one element of files: files.push({id, name, path, type, templateOrigin})
OutputFile(completedRunId, templateOrigin, fileType, backendFilePath) ==
    LET filename == Basename(backendFilePath)
    IN [ id |-> RunIdStr(completedRunId) \o <<"_">> \o templateOrigin \o <<"_">>
                    \o fileType \o <<"_">> \o filename,
         name |-> filename,
         path |-> filename,
         type |-> ReadableType(fileType),
         templateOrigin |-> templateOrigin ]

\* the inner forEach: the files of one template, in enumeration order
FilesOfTemplate(completedRunId, templateOrigin, fileTypeMap) ==
    LET entries == ObjectEntries(fileTypeMap)
    IN [k \in 1..Len(entries) |->
           OutputFile(completedRunId, templateOrigin, entries[k][1], entries[k][2])]

\* the outer forEach from position i of the enumerated outputs on
RECURSIVE FilesFrom(_, _, _)
FilesFrom(completedRunId, entries, i) ==
    IF i > Len(entries) THEN <<>>
    ELSE FilesOfTemplate(completedRunId, entries[i][1], entries[i][2])
             \o FilesFrom(completedRunId, entries, i + 1)

\* a mapping that leaves out the files whose name is empty
FilesWithNames(completedRunId, outputs) ==
    SelectSeq(FilesFrom(completedRunId, ObjectEntries(outputs), 1),
              LAMBDA f : f.name # <<>>)

\* the list fetchFinalResults hands to setDisplayedOutputFiles
Files(completedRunId, outputs) ==
    FilesFrom(completedRunId, ObjectEntries(outputs), 1)

\* outputs the backend may send
TmplA == <<"t","m","p","l","A">>
TmplB == <<"t","m","p","l","B">>
Excel == <<"e","x","c","e","l">>
Json == <<"j","s","o","n">>
\* the two templates of the documented example
ExampleOutputs ==
    << << TmplA, << << Excel, <<"/","r","u","n","s","/","r","1","/","t","m","p","l","A","_","e","x","c","e","l","_","1",".","x","l","s","x">> >> >> >>,
       << TmplB, << << Json, <<"/","r","u","n","s","/","r","1","/","t","m","p","l","B","_","j","s","o","n","_","1",".","j","s","o","n">> >> >> >> >>
\* a template whose name is a number, sent after one whose name is not
NumberedOutputs ==
    << << TmplB, << << Json, <<"/","r","/","b",".","j","s","o","n">> >> >> >>,
       << <<"7">>, << << Excel, <<"/","r","/","f",".","x","l","s","x">> >> >> >> >>
\* a path that ends in the separator
NamelessOutputs ==
    << << TmplA, << << Excel, <<"/","r","u","n","s","/","r","1","/">> >> >> >> >>
\* names that hold the separator of the id
UnderscoreOutputs ==
    << << <<"a","_","b">>, << << <<"c">>, <<"/","r","/","f",".","x","l","s","x">> >> >> >>,
       << <<"a">>, << << <<"b","_","c">>, <<"/","r","/","f",".","x","l","s","x">> >> >> >> >>
\* a response without files
NoOutputs == <<>>

BackendOutputs ==
    {ExampleOutputs, NumberedOutputs, NamelessOutputs, UnderscoreOutputs, NoOutputs}

(***************************************************************************)
(* State of the page.                                                      *)
(***************************************************************************)
VARIABLES
    endpoints,            \* the endpoint store
    edits,                \* how often the store was edited
    currentRunId,         \* useState currentRunId; 0 is null
    runStatusInfo,        \* useState runStatusInfo
    runResultsInfo,       \* useState runResultsInfo; run_id 0 is null
    displayedOutputFiles, \* useState displayedOutputFiles
    isExecuting,          \* useState isExecuting
    effectDeps,           \* the dependencies the polling effect last ran with
    loops,                \* bag of poll closures that await a response or a timer
    submitsInFlight,      \* POST /process requests awaiting their response
    resultsInFlight,      \* bag of runs whose results request awaits its response
    lastRequest,          \* the last request handed to fetch
    toast,                \* the title of the toast the last step showed
    configLookups,        \* status lookups that found no definition since the run state was cleared
    resultsBody,          \* outputs of the last results response as the backend sent them
    downloadsInFlight,    \* bag of download requests awaiting their response
    isDownloadingAll,     \* useState isDownloadingAll
    objectUrls,           \* object URLs created and not revoked
    save,                 \* the file save the last step offered to the user
    nextRun,              \* the next run the backend hands out
    polls,                \* status responses delivered (since the first run was abandoned)
    \* observations of the first run, kept until the caller abandons it:
    responses,            \* the status responses delivered to it, in order
    trace,                \* the poller state at its start and after each response
    resultsCalls          \* calls of fetchFinalResults for it

\* the state of the downloads
downloadVars == << downloadsInFlight, isDownloadingAll, objectUrls >>

\* everything but what the last step showed or offered
quietVars == << endpoints, edits, currentRunId, runStatusInfo, runResultsInfo,
                displayedOutputFiles, isExecuting, effectDeps, loops, submitsInFlight,
                resultsInFlight, lastRequest, configLookups, resultsBody, downloadVars,
                nextRun, polls, responses, trace, resultsCalls >>

vars == << quietVars, toast, save >>

\* the larger of the two run bounds
RunBound == IF MaxRuns >= MaxRunsReg THEN MaxRuns ELSE MaxRunsReg
Runs == 1..RunBound
NoRun == 0

\* the delay of setTimeout(poll, 3000)
PollInterval == 3000

\* runStatusInfo === null
NullStatus == [run_id |-> NoRun, status |-> "null", current_stage |-> "null"]
\* runResultsInfo === null
NullResults == [run_id |-> NoRun, status |-> "null", outputs |-> <<>>]

\* what the backend may answer to a status request; "transport_error" stands for a
\* rejected fetch, a non-OK response or a body that does not parse
BackendStatuses == {"queued", "processing", "completed", "failed"}
StatusOutcomes == BackendStatuses \cup {"transport_error"}

\* a request without a body
NoBody == [templates |-> 0, vendor |-> FALSE]
NoRequest == [op |-> "none", url |-> <<>>, ep |-> 0, body |-> NoBody]
Request(o, ep, path) ==
    [op |-> o, url |-> FASTAPI_BASE_URL \o path, ep |-> ep.id, body |-> NoBody]

\* no toast was shown, no save was offered
NoToast == "none"
NoSave == [op |-> "none", run |-> NoRun, requested |-> <<>>, name |-> <<>>]

\* a lookup in the documented list, whatever is stored
getDocumentedEndpoint(pathKey, method) == Resolve(Store(DocList), pathKey, method)

\* getApiEndpoint reads the store anew on every call
getApiEndpoint(pathKey, method) == Resolve(endpoints, pathKey, method)

\* the dependency list [currentRunId, runStatusInfo?.status] of the polling effect
Deps(ps) == << ps.currentRunId, ps.runStatusInfo.status >>

\* the part of the state the polling effect and the poll closures act on
Page ==
    [ currentRunId |-> currentRunId, runStatusInfo |-> runStatusInfo,
      isExecuting |-> isExecuting, effectDeps |-> effectDeps, loops |-> loops,
      lastRequest |-> lastRequest, configLookups |-> configLookups ]

Loop(r, ph, c, v) == [run |-> r, phase |-> ph, cur |-> c, via |-> v, delay |-> PollInterval]
OneLoop(l) == SetToBag({l})

\* the poller state of section 4.3, read off the page state as the effect reads it
PollerState(ps) ==
    IF ps.currentRunId = NoRun THEN "Idle"
    ELSE IF ps.runStatusInfo.status = "completed" THEN "TerminalCompleted"
    ELSE IF ps.runStatusInfo.status = "failed" THEN "TerminalFailed"
    ELSE IF ps.runStatusInfo.status \in {"error", "config_error"} THEN "TerminalError"
    ELSE "Polling"

(***************************************************************************)
(* The polling effect and the poll closure.                                *)
(***************************************************************************)
\* a poll without the branch that ends the busy state when the status lookup
\* found no definition
PollStartStaysBusy(ps, run, c, via) ==
    LET statusEndpointConfig == getApiEndpoint(StatusKey, "GET")
    IN IF statusEndpointConfig = NoEndpoint
       THEN [ps EXCEPT !.runStatusInfo =
                           [@ EXCEPT !.status = "config_error",
                                     !.current_stage = "Status endpoint not configured."],
                       !.configLookups = @ + 1]
       ELSE [ps EXCEPT !.loops = @ (+) OneLoop(Loop(run, "fetching", c, via)),
                       !.lastRequest =
                           Request("status", statusEndpointConfig,
                                   fillPathParameters(statusEndpointConfig.path,
                                                      << <<RunIdKey, RunIdStr(run)>> >>))]

\* fetchRunStatus up to its fetch, and what poll does when it returns
\* 'config_error' without a fetch: c says whether the closure belongs to the
\* effect run whose cleanup is registered, via what called poll
PollStart(ps, run, c, via) ==
    LET statusEndpointConfig == getApiEndpoint(StatusKey, "GET")
    IN IF statusEndpointConfig = NoEndpoint
       THEN [ps EXCEPT !.runStatusInfo =
                           [@ EXCEPT !.status = "config_error",
                                     !.current_stage = "Status endpoint not configured."],
                       !.isExecuting = FALSE,
                       !.configLookups = @ + 1]
       ELSE [ps EXCEPT !.loops = @ (+) OneLoop(Loop(run, "fetching", c, via)),
                       !.lastRequest =
                           Request("status", statusEndpointConfig,
                                   fillPathParameters(statusEndpointConfig.path,
                                                      << <<RunIdKey, RunIdStr(run)>> >>))]

\* return () => clearTimeout(pollTimeout): the pending timer of the registered
\* closure is cancelled; a closure that awaits its response is not stopped, it
\* only stops being the registered one
Cleanup(b) ==
    LET old == BagToSet(b)
        kept == {l \in old : ~l.cur}
        demoted == {[l EXCEPT !.cur = FALSE] : l \in {k \in old : k.cur /\ k.phase = "fetching"}}
    IN [l \in kept \cup demoted |->
           (IF l \in kept THEN b[l] ELSE 0)
           + (IF l \in demoted THEN b[[l EXCEPT !.cur = TRUE]] ELSE 0)]

\* an effect that stops polling on 'completed' only
EffectPollsUnlessCompleted(ps) ==
    ps.currentRunId # NoRun /\ ps.runStatusInfo.status # "completed"

\* the condition under which the polling effect starts a poll
EffectPolls(ps) ==
    ps.currentRunId # NoRun /\ ps.runStatusInfo.status \notin {"completed", "failed"}

\* the body of the polling effect
EffectBody(ps) ==
    IF EffectPolls(ps)
    THEN PollStart([ps EXCEPT !.isExecuting = TRUE], ps.currentRunId, TRUE, "effect")
    ELSE IF ps.runStatusInfo.status \in {"completed", "failed"}
    THEN [ps EXCEPT !.isExecuting = FALSE]
    ELSE ps

\* React re-runs the effect (cleanup first) when a dependency changed in the render
\* that follows a handler; an effect that changes a dependency is followed by another
RECURSIVE UseEffect(_)
UseEffect(ps) ==
    IF Deps(ps) = ps.effectDeps THEN ps
    ELSE UseEffect(EffectBody([ps EXCEPT !.effectDeps = Deps(ps),
                                         !.loops = Cleanup(@)]))

\* the page state after a handler left it as ps and React rendered
Commit(ps) ==
    LET q == UseEffect(ps)
    IN /\ currentRunId' = q.currentRunId
       /\ runStatusInfo' = q.runStatusInfo
       /\ isExecuting' = q.isExecuting
       /\ effectDeps' = q.effectDeps
       /\ loops' = q.loops
       /\ lastRequest' = q.lastRequest
       /\ configLookups' = q.configLookups

(***************************************************************************)
(* Initial state: the page is mounted, no run, the effect ran once.        *)
(***************************************************************************)
InitWith(stores) ==
    /\ endpoints \in stores
    /\ edits = 0
    /\ currentRunId = NoRun
    /\ runStatusInfo = NullStatus
    /\ runResultsInfo = NullResults
    /\ displayedOutputFiles = <<>>
    /\ isExecuting = FALSE
    /\ effectDeps = << NoRun, "null" >>
    /\ loops = EmptyBag
    /\ submitsInFlight = 0
    /\ resultsInFlight = EmptyBag
    /\ lastRequest = NoRequest
    /\ toast = NoToast
    /\ configLookups = 0
    /\ resultsBody = <<>>
    /\ downloadsInFlight = EmptyBag
    /\ isDownloadingAll = FALSE
    /\ objectUrls = 0
    /\ save = NoSave
    /\ nextRun = 1
    /\ polls = 0
    /\ responses = <<>>
    /\ trace = <<>>
    /\ resultsCalls = 0

(***************************************************************************)
(* Operations.                                                             *)
(***************************************************************************)
\* The store is edited outside this page (API Docs); the page only reads it.
EditEndpoints ==
    /\ edits < MaxEdits
    /\ \E s \in Stores \ {endpoints} : endpoints' = s
    /\ edits' = edits + 1
    /\ UNCHANGED << currentRunId, runStatusInfo, runResultsInfo, displayedOutputFiles,
                    isExecuting, effectDeps, loops, submitsInFlight, resultsInFlight,
                    lastRequest, configLookups, resultsBody, downloadVars,
                    nextRun, polls, responses, trace, resultsCalls >>
    /\ toast' = NoToast
    /\ save' = NoSave

\* the first run the backend hands out
FirstRun == 1

\* run r was current and the caller moved away from it (reset, or another run)
Abandoned(r) == r < nextRun /\ r # currentRunId

\* whether the first run is observed: it was started and never abandoned
Observed == nextRun > FirstRun /\ ~Abandoned(FirstRun)

\* the caller abandons run r: the observations of the first run end with it
Abandon(r) ==
    IF r = FirstRun
    THEN responses' = <<>> /\ trace' = <<>> /\ resultsCalls' = 0 /\ polls' = 0
    ELSE UNCHANGED << responses, trace, resultsCalls, polls >>

\* what the form may hold when the handler runs: the number of selected
\* templates and whether a vendor is selected
TemplateCounts == {0, 1}

\* a validation that rejects only a form with neither templates nor vendor
SelectionIncompleteBoth(templates, vendor) == templates = 0 /\ ~vendor

\* selectedTemplateIds.length === 0 || !selectedVendorId
SelectionIncomplete(templates, vendor) == templates = 0 \/ ~vendor

\* a handler that sends the request again when it failed
OutstandingWithRetry(n, ok) == IF ok THEN n - 1 ELSE n

\* the submit requests outstanding after the awaited one of n returned: the
\* handler sends nothing more, whatever the outcome
Outstanding(n, ok) == n - 1

\* handleExecutePipeline up to its fetch. The form is rendered while there is no
\* current run and its button is enabled while nothing executes.
Submit(maxRuns) ==
    /\ currentRunId = NoRun
    /\ ~isExecuting
    /\ nextRun + submitsInFlight <= maxRuns
    /\ \E templates \in TemplateCounts, vendor \in BOOLEAN :
         LET processApiEndpoint == getApiEndpoint(ProcessKey, "POST")
         IN IF SelectionIncomplete(templates, vendor)
            THEN /\ toast' = "Selection Incomplete"
                 /\ save' = NoSave
                 /\ UNCHANGED quietVars
            ELSE IF processApiEndpoint = NoEndpoint
            THEN /\ toast' = "API Config Error"
                 /\ save' = NoSave
                 /\ UNCHANGED quietVars
            ELSE /\ Commit([Page EXCEPT !.isExecuting = TRUE,
                                        !.currentRunId = NoRun,
                                        !.runStatusInfo = NullStatus,
                                        !.configLookups = 0,
                                        !.lastRequest =
                                            [Request("submit", processApiEndpoint,
                                                     processApiEndpoint.path)
                                                EXCEPT !.body = [templates |-> templates,
                                                                 vendor |-> vendor]]])
                 /\ runResultsInfo' = NullResults
                 /\ displayedOutputFiles' = <<>>
                 /\ resultsBody' = <<>>
                 /\ submitsInFlight' = submitsInFlight + 1
                 /\ toast' = NoToast
                 /\ save' = NoSave
                 /\ UNCHANGED << endpoints, edits, resultsInFlight, downloadVars,
                                 nextRun, polls, responses, trace, resultsCalls >>

\* a catch block that leaves the page busy
SubmitFailedStaysBusy(ps) == ps

\* the catch block of handleExecutePipeline: setIsExecuting(false), nothing else
SubmitFailed(ps) == [ps EXCEPT !.isExecuting = FALSE]

\* handleExecutePipeline after its fetch: the backend hands out the next run, or
\* the request fails (non-OK response or transport error)
SubmitResponse ==
    /\ submitsInFlight > 0
    /\ \E ok \in BOOLEAN :
         /\ submitsInFlight' = Outstanding(submitsInFlight, ok)
         /\ IF ok
            THEN /\ Commit([Page EXCEPT !.currentRunId = nextRun])
                 /\ toast' = "Pipeline Queued"
                 /\ nextRun' = nextRun + 1
                 /\ IF nextRun = FirstRun
                    THEN /\ trace' = << PollerState(Page) >>
                         /\ UNCHANGED << responses, resultsCalls, polls >>
                    ELSE Abandon(currentRunId)
            ELSE /\ Commit(SubmitFailed(Page))
                 /\ toast' = "Pipeline Execution Failed"
                 /\ UNCHANGED << nextRun, trace, responses, resultsCalls, polls >>
    /\ save' = NoSave
    /\ UNCHANGED << endpoints, edits, runResultsInfo, displayedOutputFiles,
                    resultsInFlight, resultsBody, downloadVars >>

\* fetchFinalResults up to its fetch, called by poll on 'completed'
ResultsStart(ps, completedRunId) ==
    LET resultsEndpointConfig == getApiEndpoint(ResultsKey, "GET")
    IN IF resultsEndpointConfig = NoEndpoint
       THEN [ps EXCEPT !.isExecuting = FALSE]
       ELSE [ps EXCEPT !.isExecuting = TRUE,
                       !.lastRequest =
                           Request("results", resultsEndpointConfig,
                                   fillPathParameters(resultsEndpointConfig.path,
                                                      << <<RunIdKey, RunIdStr(completedRunId)>> >>))]

\* a poll that hands over as soon as the backend reports work in progress
FetchesResultsEarly(statusResult) == statusResult \in {"processing", "completed"}

\* whether poll hands the run over to fetchFinalResults
FetchesResults(statusResult) == statusResult = "completed"

\* a poll that never schedules itself again
PollsNever(statusResult, run) == FALSE

\* whether poll schedules itself again
PollsAgain(statusResult, run) ==
    statusResult \notin {"failed", "error", "config_error"} /\ run # NoRun

\* what poll does with the value fetchRunStatus returned for closure l
AfterStatus(ps, l, statusResult) ==
    IF FetchesResults(statusResult)
    THEN ResultsStart(ps, l.run)
    ELSE IF PollsAgain(statusResult, l.run)
    THEN [ps EXCEPT !.loops = @ (+) OneLoop([l EXCEPT !.phase = "timer"])]
    ELSE [ps EXCEPT !.isExecuting = FALSE]

\* fetchRunStatus after its fetch: the state it sets
StatusApplied(ps, l, out) ==
    IF out = "transport_error"
    THEN [ps EXCEPT !.runStatusInfo =
                        [@ EXCEPT !.status = "error",
                                  !.current_stage = "Error fetching status"]]
    ELSE [ps EXCEPT !.runStatusInfo =
                        [run_id |-> l.run, status |-> out, current_stage |-> "backend"]]

\* fetchRunStatus after its fetch: the value it returns
StatusResult(out) == IF out = "transport_error" THEN "error" ELSE out

\* the response to the status request of closure l arrives, with one of the
\* given outcomes
StatusResponseOf(outcomes, maxPolls, maxAfter) ==
    /\ polls < (IF Observed THEN maxPolls ELSE maxAfter)
    /\ \E l \in BagToSet(loops), out \in outcomes :
         /\ l.phase = "fetching"
         /\ LET ps0 == [Page EXCEPT !.loops = @ (-) OneLoop(l)]
                ps1 == AfterStatus(StatusApplied(ps0, l, out), l, StatusResult(out))
                q == UseEffect(ps1)
                called == FetchesResults(StatusResult(out))
                seen == l.run = FirstRun /\ Observed
            IN /\ Commit(ps1)
               /\ trace' = IF seen THEN Append(trace, PollerState(q)) ELSE trace
               /\ responses' = IF seen THEN Append(responses, out) ELSE responses
               /\ resultsCalls' = IF seen /\ called THEN resultsCalls + 1 ELSE resultsCalls
               /\ resultsInFlight' =
                      IF called /\ getApiEndpoint(ResultsKey, "GET") # NoEndpoint
                      THEN resultsInFlight (+) SetToBag({l.run})
                      ELSE resultsInFlight
               /\ toast' = IF called /\ getApiEndpoint(ResultsKey, "GET") = NoEndpoint
                           THEN "API Config Error"
                           ELSE IF out = "failed" THEN "Processing Failed"
                           ELSE NoToast
    /\ polls' = polls + 1
    /\ save' = NoSave
    /\ UNCHANGED << endpoints, edits, runResultsInfo, displayedOutputFiles,
                    submitsInFlight, resultsBody, downloadVars, nextRun >>

\* a status response with any outcome
StatusResponse(maxPolls, maxAfter) == StatusResponseOf(StatusOutcomes, maxPolls, maxAfter)

\* the timer of closure l expires: poll runs again
TimerExpiry ==
    \E l \in BagToSet(loops) :
        /\ l.phase = "timer"
        /\ Commit(PollStart([Page EXCEPT !.loops = @ (-) OneLoop(l)], l.run, l.cur, "timer"))
        /\ UNCHANGED << endpoints, edits, runResultsInfo, displayedOutputFiles,
                        submitsInFlight, resultsInFlight, resultsBody,
                        downloadVars, nextRun, polls, responses, trace, resultsCalls >>
        /\ toast' = NoToast
        /\ save' = NoSave

\* JSON.parse of the outputs member: an object enumerates its keys as
\* ObjectEntries says, at both levels
JsonParse(outputs) ==
    LET entries == ObjectEntries(outputs)
    IN [k \in 1..Len(entries) |-> << entries[k][1], ObjectEntries(entries[k][2]) >>]

\* fetchFinalResults after its fetch: the response carries one of the given
\* outputs, or the request fails (non-OK response, transport or parse error)
ResultsResponse(sent) ==
    \E r \in BagToSet(resultsInFlight), ok \in BOOLEAN :
        /\ resultsInFlight' = resultsInFlight (-) SetToBag({r})
        /\ IF ok
           THEN \E outputs \in sent :
                    /\ runResultsInfo' = [run_id |-> r, status |-> "completed",
                                          outputs |-> JsonParse(outputs)]
                    /\ displayedOutputFiles' = Files(r, JsonParse(outputs))
                    /\ resultsBody' = outputs
                    /\ toast' = "Results Loaded"
           ELSE /\ runResultsInfo' = NullResults
                /\ displayedOutputFiles' = <<>>
                /\ resultsBody' = <<>>
                /\ toast' = "Error Fetching Results"
        /\ Commit([Page EXCEPT !.isExecuting = FALSE])
        /\ save' = NoSave
        /\ UNCHANGED << endpoints, edits, submitsInFlight, downloadVars, nextRun, polls,
                        responses, trace, resultsCalls >>

\* resetRunState ("Configure New Run", rendered while a run is current)
resetRunState ==
    /\ currentRunId # NoRun
    /\ Commit([Page EXCEPT !.currentRunId = NoRun,
                           !.runStatusInfo = NullStatus,
                           !.configLookups = 0,
                           !.isExecuting = FALSE])
    /\ runResultsInfo' = NullResults
    /\ displayedOutputFiles' = <<>>
    /\ resultsBody' = <<>>
    /\ Abandon(currentRunId)
    /\ toast' = NoToast
    /\ save' = NoSave
    /\ UNCHANGED << endpoints, edits, submitsInFlight, resultsInFlight,
                    downloadVars, nextRun >>

\* `onboarding_results_${runIdToDownload}.zip`
ZipFileName(runIdToDownload) ==
    <<"o","n","b","o","a","r","d","i","n","g","_","r","e","s","u","l","t","s","_">>
        \o RunIdStr(runIdToDownload) \o <<".","z","i","p">>

\* a download that awaits its response: the arguments of its handler
DownloadRequest(runIdToDownload, zip, fileNameToDownload) ==
    [ run |-> runIdToDownload, zip |-> zip, name |-> fileNameToDownload ]

\* handleDownloadFile (zip FALSE) and handleDownloadAllZip (zip TRUE) up to their
\* fetch
StartDownload(zip, fileName) ==
    LET key == IF zip THEN DownloadZipKey ELSE DownloadFileKey
        config == getApiEndpoint(key, "GET")
        params == IF zip THEN << <<RunIdKey, RunIdStr(currentRunId)>> >>
                  ELSE << <<RunIdKey, RunIdStr(currentRunId)>>,
                          <<FilenameKey, fileName>> >>
    IN IF config = NoEndpoint
       THEN /\ toast' = "API Config Error"
            /\ save' = NoSave
            /\ UNCHANGED quietVars
       ELSE /\ save' = NoSave
            /\ lastRequest' = Request(IF zip THEN "zip" ELSE "download", config,
                                      fillPathParameters(config.path, params))
            /\ downloadsInFlight' =
                   downloadsInFlight
                       (+) SetToBag({DownloadRequest(currentRunId, zip, fileName)})
            /\ isDownloadingAll' = (zip \/ isDownloadingAll)
            /\ toast' = IF zip THEN "Preparing Zip Archive" ELSE "Preparing Download"
            /\ UNCHANGED << endpoints, edits, currentRunId, runStatusInfo,
                            runResultsInfo, displayedOutputFiles, isExecuting,
                            effectDeps, loops, submitsInFlight, resultsInFlight,
                            configLookups, resultsBody, objectUrls,
                            nextRun, polls, responses, trace, resultsCalls >>

\* A download button is pressed. The buttons are rendered for the current run once
\* its results are shown: one per listed file, and the zip button while files are
\* listed and no zip download is under way.
Download(maxDownloads) ==
    /\ currentRunId # NoRun
    /\ runResultsInfo.status = "completed"
    /\ BagCardinality(downloadsInFlight) + objectUrls < maxDownloads
    /\ \/ \E i \in 1..Len(displayedOutputFiles) :
              StartDownload(FALSE, displayedOutputFiles[i].path)
       \/ /\ displayedOutputFiles # <<>>
          /\ ~isDownloadingAll
          /\ StartDownload(TRUE, <<>>)

\* what ends a download after its request: the payload was saved, the request
\* failed (transport error or non-OK response), or an exception was thrown
\* between createObjectURL and revokeObjectURL
DownloadOutcomes == {"saved", "request_failed", "save_failed"}

\* a handler whose end makes the other downloads under way end with it
PendingAfterAbort(downloads, d) == EmptyBag

\* the downloads under way after the handler of d ended: each invocation awaits
\* its own fetch and touches no other
PendingAfter(downloads, d) == downloads (-) SetToBag({d})

\* handleDownloadFile / handleDownloadAllZip after their fetch
DownloadResponse ==
    \E d \in BagToSet(downloadsInFlight), outcome \in DownloadOutcomes :
        /\ downloadsInFlight' = PendingAfter(downloadsInFlight, d)
        /\ isDownloadingAll' = (IF d.zip THEN FALSE ELSE isDownloadingAll)
        /\ objectUrls' = (IF outcome = "save_failed" THEN objectUrls + 1 ELSE objectUrls)
        /\ save' =
               IF outcome = "saved"
               THEN [ op |-> IF d.zip THEN "zip" ELSE "download", run |-> d.run,
                      requested |-> d.name,
                      name |-> IF d.zip THEN ZipFileName(d.run) ELSE d.name ]
               ELSE NoSave
        /\ toast' = IF outcome = "saved"
                    THEN (IF d.zip THEN "Archive Download Started" ELSE "Download Started")
                    ELSE (IF d.zip THEN "Archive Download Failed" ELSE "Download Failed")
        /\ UNCHANGED << endpoints, edits, currentRunId, runStatusInfo, runResultsInfo,
                        displayedOutputFiles, isExecuting, effectDeps, loops,
                        submitsInFlight, resultsInFlight, lastRequest, configLookups,
                        resultsBody, nextRun, polls, responses, trace, resultsCalls >>

(***************************************************************************)
(* Spec: the run lifecycle over a stored list that holds the documented    *)
(* endpoints.  SpecRegistry: one run over any stored list, with edits.     *)
(* The download handlers touch none of the run state; they are part of     *)
(* SpecArtifacts below.                                                    *)
(***************************************************************************)
LifecycleStores == {Store(DocList), Store(BraceList)}

Init == InitWith(LifecycleStores)

Next ==
    \/ Submit(MaxRuns)
    \/ SubmitResponse
    \/ StatusResponse(MaxPolls, MaxPollsAfter)
    \/ TimerExpiry
    \/ ResultsResponse({ExampleOutputs})
    \/ resetRunState

Spec == Init /\ [][Next]_vars

InitRegistry == InitWith(Stores)

NextRegistry ==
    \/ EditEndpoints
    \/ Submit(MaxRunsReg)
    \/ SubmitResponse
    \/ StatusResponse(MaxPollsReg, MaxPollsReg)
    \/ TimerExpiry
    \/ ResultsResponse({ExampleOutputs})
    \/ resetRunState

SpecRegistry == InitRegistry /\ [][NextRegistry]_vars

\* SpecArtifacts: one run over the documented endpoints, with every results
\* response the backend may send
InitArtifacts == InitWith(LifecycleStores)

NextArtifacts ==
    \/ Submit(MaxRunsReg)
    \/ SubmitResponse
    \/ StatusResponse(MaxPollsReg, MaxPollsReg)
    \/ TimerExpiry
    \/ ResultsResponse(BackendOutputs)
    \/ resetRunState
    \/ Download(MaxDownloads)
    \/ DownloadResponse

SpecArtifacts == InitArtifacts /\ [][NextArtifacts]_vars

\* SpecDownloads: downloads side by side with each other and with the polling of
\* a later run, whose status requests stay unanswered
InitDownloads == InitWith(LifecycleStores)

NextDownloads ==
    \/ Submit(MaxRuns)
    \/ SubmitResponse
    \/ StatusResponse(MaxPollsAfter, 0)
    \/ TimerExpiry
    \/ ResultsResponse({ExampleOutputs})
    \/ resetRunState
    \/ Download(MaxConcurrent)
    \/ DownloadResponse

SpecDownloads == InitDownloads /\ [][NextDownloads]_vars

\* SpecLive: one run that is not cancelled, over the documented endpoints; every
\* request is answered, every timer expires, and the backend answers a status
\* request with a status, the last one it is asked for with a terminal one
InitLive == InitWith(LifecycleStores)

\* the status responses of a backend that ends the run within MaxPolls polls
LiveStatusResponse ==
    StatusResponseOf(IF polls + 1 < MaxPolls THEN BackendStatuses
                     ELSE {"completed", "failed"},
                     MaxPolls, MaxPolls)

NextLive ==
    \/ Submit(MaxRunsReg)
    \/ SubmitResponse
    \/ LiveStatusResponse
    \/ TimerExpiry
    \/ ResultsResponse({ExampleOutputs})

\* a request awaits its response, a poll timer its expiry
AwaitsResponse ==
    \/ submitsInFlight > 0
    \/ resultsInFlight # EmptyBag
    \/ \E l \in BagToSet(loops) : l.phase = "fetching"
AwaitsTimer == \E l \in BagToSet(loops) : l.phase = "timer"

\* no request waits for its response for ever, no timer for its expiry
SpecLive ==
    /\ InitLive
    /\ [][NextLive]_vars
    /\ []<>(~AwaitsResponse)
    /\ []<>(~AwaitsTimer)

(***************************************************************************)
(* Properties.                                                             *)
(***************************************************************************)
Range(q) == {q[i] : i \in 1..Len(q)}
Contains(str, pat) == IndexOf(str, pat) # 0
IsPrefixOf(a, b) == Len(a) <= Len(b) /\ SubSeq(b, 1, Len(a)) = a

CompletedSequence == << "queued", "processing", "processing", "completed" >>
CompletedTrace ==
    << "Idle", "Polling", "Polling", "Polling", "TerminalCompleted" >>
FailedSequence == << "processing", "failed" >>

\* C1: while the first run is not abandoned and its status responses are a prefix
\* of [queued, processing, processing, completed], the poller states recorded at
\* its start and after each response are the matching prefix of Idle, Polling,
\* Polling, Polling, Terminal(Completed); fetchFinalResults has been called not at
\* all before the 'completed' response and exactly once from it on.
C1_CompletedSequence ==
    (Observed /\ IsPrefixOf(responses, CompletedSequence)) =>
        /\ trace = SubSeq(CompletedTrace, 1, Len(responses) + 1)
        /\ resultsCalls = (IF responses = CompletedSequence THEN 1 ELSE 0)
        /\ responses = CompletedSequence =>
               /\ PollerState(Page) = "TerminalCompleted"
               /\ loops = EmptyBag
               /\ BagCardinality(resultsInFlight) <= 1

C1_Witness ==
    /\ Observed
    /\ responses = CompletedSequence
    /\ resultsCalls = 1
    /\ runResultsInfo.run_id = FirstRun

\* C2 (state part): while the first run is not abandoned and its status responses
\* are [processing, failed], the poller is in Terminal(Failed), no status request
\* or poll timer is outstanding and no results fetch was called or is in flight.
C2_FailedState ==
    (Observed /\ responses = FailedSequence) =>
        /\ PollerState(Page) = "TerminalFailed"
        /\ loops = EmptyBag
        /\ resultsCalls = 0
        /\ resultsInFlight = EmptyBag

\* C2 (step part): a results request is issued only in a step that applied a
\* 'completed' status response, and for the run of that response.
C2_ResultsOnlyOnCompleted ==
    BagCardinality(resultsInFlight') > BagCardinality(resultsInFlight) =>
        /\ runStatusInfo'.status = "completed"
        /\ resultsInFlight' = resultsInFlight (+) SetToBag({runStatusInfo'.run_id})

\* C2: driven by [processing, failed] the poller ends in Terminal(Failed) with no
\* further status fetch and no results fetch, and a results fetch is never issued
\* on a status response other than 'completed'.
C2_FailedSequence == [] C2_FailedState /\ [][C2_ResultsOnlyOnCompleted]_vars

C2_Witness ==
    /\ Observed
    /\ responses = FailedSequence
    /\ runStatusInfo = [run_id |-> FirstRun, status |-> "failed", current_stage |-> "backend"]
    /\ ~isExecuting

\* C3: once a status fetch of the first run ended in a transport, non-OK or parse
\* error, no status request and no poll timer is outstanding for it while it is
\* the current run.
C3_ErrorIsTerminal ==
    (Observed /\ "transport_error" \in Range(responses)) => loops = EmptyBag

\* C4: for a run the caller abandoned, the run-status snapshot holds no response
\* of that run and none of its poll closures has a timer pending.
C4_NoUpdateAfterAbandon ==
    \A r \in Runs :
        Abandoned(r) =>
            /\ runStatusInfo.run_id # r
            /\ \A l \in BagToSet(loops) : l.run = r => l.phase # "timer"

\* C5: at most one poll closure awaits a response or a timer.
C5_AtMostOneLoop == BagCardinality(loops) <= 1

\* C6: a status request that is outstanding for the first run after a queued or
\* processing response was issued by the expiry of the poll timer, and every
\* pending poll timer has the delay of 3 seconds.
C6_FixedDelay ==
    \A l \in BagToSet(loops) :
        /\ (/\ Observed
            /\ l.run = FirstRun
            /\ l.phase = "fetching"
            /\ responses # <<>>
            /\ responses[Len(responses)] \in {"queued", "processing"})
           => l.via = "timer"
        /\ l.phase = "timer" => l.delay = PollInterval

\* the path key and the method an operation of the page looks up
KeyOf(op) ==
    CASE op = "submit" -> ProcessKey
      [] op = "status" -> StatusKey
      [] op = "results" -> ResultsKey
      [] op = "download" -> DownloadFileKey
      [] op = "zip" -> DownloadZipKey
MethodOf(op) == IF op = "submit" THEN "POST" ELSE "GET"

\* C7: when an operation issues a request, every stored definition of the
\* operation's method whose static prefix is a prefix of the operation's path key
\* is the definition the request was built from.
C7_ResolveReturnsDefinition ==
    [][ (lastRequest' # lastRequest /\ endpoints' = endpoints) =>
            \A i \in 1..Len(endpoints.list) :
                LET d == endpoints.list[i]
                IN (/\ d.method = MethodOf(lastRequest'.op)
                    /\ StartsWith(KeyOf(lastRequest'.op), StaticPrefix(d.path)))
                   => lastRequest'.ep = d.id ]_vars

\* C8: for every path key and method, a lookup in the store returns a stored
\* definition of that method or nothing, and nothing when the store is absent or
\* holds no definition of that method.
C8_MethodMatches ==
    \A p \in PathKeys, m \in Methods :
        LET r == getApiEndpoint(p, m)
        IN /\ r # NoEndpoint => (r.method = m /\ r \in Range(endpoints.list))
           /\ (~endpoints.present \/ \A d \in Range(endpoints.list) : d.method # m)
                  => r = NoEndpoint

\* a 'completed' response arrived and fetchFinalResults found no GET definition,
\* the results path being stored under POST only: no results request was issued
C8_Witness ==
    /\ endpoints = Store(TwiceList)
    /\ resultsCalls = 1
    /\ resultsInFlight = EmptyBag
    /\ lastRequest.op = "status"
    /\ ~isExecuting

\* C9: for every path key and method for which stored definitions match, a lookup
\* returns the one at the lowest position of the stored list.
C9_FirstDefined ==
    \A p \in PathKeys, m \in Methods :
        LET hits == {i \in 1..Len(endpoints.list) : Matches(endpoints.list[i], p, m)}
        IN (endpoints.present /\ hits # {}) =>
               getApiEndpoint(p, m) =
                   endpoints.list[CHOOSE i \in hits : \A j \in hits : i <= j]

\* two stored definitions match the status lookup and the request was built from
\* the one stored first
C9_Witness ==
    /\ endpoints = Store(TwoStatusList)
    /\ lastRequest.op = "status"
    /\ lastRequest.ep = 2
    /\ Cardinality({i \in 1..Len(endpoints.list) :
                        Matches(endpoints.list[i], StatusKey, "GET")}) = 2

\* C10: the URL of a request built by fillPathParameters with the key run_id
\* holds no run_id placeholder in either syntax.
C10_EveryOccurrenceFilled ==
    lastRequest.op \in {"status", "results", "download", "zip"} =>
        /\ ~Contains(lastRequest.url, <<":">> \o RunIdKey)
        /\ ~Contains(lastRequest.url, <<"{">> \o RunIdKey \o <<"}">>)

\* the path of the stored definition with the given id
StoredPath(id) ==
    LET i == CHOOSE k \in 1..Len(endpoints.list) : endpoints.list[k].id = id
    IN endpoints.list[i].path

FXlsx == <<"f",".","x","l","s","x">>
DownloadR1FXlsx == <<"/","d","o","w","n","l","o","a","d","/","r","1","/","f",".","x","l","s","x">>
DownloadR1Filename == <<"/","d","o","w","n","l","o","a","d","/","r","1","/",":","f","i","l","e","n","a","m","e">>

\* the download a step started, given that it showed the toast of one
StartedDownload ==
    CHOOSE d \in BagToSet(downloadsInFlight') :
        downloadsInFlight' = downloadsInFlight (+) SetToBag({d})

\* C11: a download request built from the stored template
\* '/download/:run_id/:filename' has the path '/download/<run>/<file>' when run_id
\* and filename are given, '/download/r1/f.xlsx' for run r1 and file f.xlsx, and
\* the path '/download/<run>/:filename' when only run_id is given (the zip
\* handler): the placeholder without a value stays as it is.
C11_FillsGivenKeys ==
    [][ (/\ toast' \in {"Preparing Download", "Preparing Zip Archive"}
         /\ StoredPath(lastRequest'.ep) = DownloadFileKey)
        => LET d == StartedDownload
               path == SubSeq(lastRequest'.url, Len(FASTAPI_BASE_URL) + 1,
                              Len(lastRequest'.url))
           IN /\ path = <<"/","d","o","w","n","l","o","a","d","/">> \o RunIdStr(d.run) \o <<"/">>
                             \o (IF d.zip THEN <<":">> \o FilenameKey ELSE d.name)
              /\ (d.run = 1 /\ ~d.zip /\ d.name = FXlsx) => path = DownloadR1FXlsx
              /\ (d.run = 1 /\ d.zip) => path = DownloadR1Filename ]_vars

\* the download of f.xlsx of run r1 was requested from '/download/r1/f.xlsx'
C11_Witness ==
    /\ toast = "Preparing Download"
    /\ lastRequest.op = "download"
    /\ lastRequest.url = FASTAPI_BASE_URL \o DownloadR1FXlsx
    /\ \E d \in BagToSet(downloadsInFlight) : d.name = FXlsx /\ d.run = 1

\* the number of status requests that await their response
FetchingCount(b) ==
    BagCardinality([l \in {k \in BagToSet(b) : k.phase = "fetching"} |-> b[l]])

\* no step issues a request for an operation whose lookup finds no definition
C12_NoRequestWithoutDefinition ==
    endpoints' = endpoints =>
        /\ getApiEndpoint(ProcessKey, "POST") = NoEndpoint =>
               submitsInFlight' <= submitsInFlight
        /\ getApiEndpoint(StatusKey, "GET") = NoEndpoint =>
               FetchingCount(loops') <= FetchingCount(loops)
        /\ getApiEndpoint(ResultsKey, "GET") = NoEndpoint =>
               BagCardinality(resultsInFlight') <= BagCardinality(resultsInFlight)
        /\ \A zip \in BOOLEAN :
               getApiEndpoint(IF zip THEN DownloadZipKey ELSE DownloadFileKey, "GET")
                       = NoEndpoint =>
                   \A d \in BagToSet(downloadsInFlight') :
                       d.zip = zip => d \in BagToSet(downloadsInFlight)

\* C12: an operation whose lookup finds no definition issues no request, and
\* after the status lookup of a run found none the poll loop does not look the
\* status definition up again: at most one failed status lookup per run state.
C12_ConfigErrorIsTerminal ==
    [][C12_NoRequestWithoutDefinition]_vars /\ [](configLookups <= 1)

\* C13: a call of the submit handler with no template or no vendor selected shows
\* the validation error and changes nothing else (no request, no run identifier,
\* run state as it was), and no submit request ever carries an empty template
\* selection or no vendor.
C13_ValidationBeforeRequest ==
    /\ [][toast' = "Selection Incomplete" => UNCHANGED quietVars]_vars
    /\ [](lastRequest.op = "submit" =>
              (lastRequest.body.templates > 0 /\ lastRequest.body.vendor))

\* the handler rejected a selection after an earlier run was shown and reset
C13_Witness ==
    /\ toast = "Selection Incomplete"
    /\ nextRun > FirstRun
    /\ currentRunId = NoRun
    /\ submitsInFlight = 0

\* C14: a submit request is sent only by a call of the handler with a complete
\* selection (the button being enabled), one request per call, and the step that
\* handles its response, success or failure, takes that one request away and
\* sends none.
C14_OneRequestPerSubmit ==
    [][ /\ submitsInFlight' > submitsInFlight =>
               /\ submitsInFlight' = submitsInFlight + 1
               /\ lastRequest'.op = "submit"
               /\ lastRequest'.body.templates > 0 /\ lastRequest'.body.vendor
               /\ currentRunId = NoRun /\ ~isExecuting
               /\ toast' = NoToast
        /\ toast' \in {"Pipeline Queued", "Pipeline Execution Failed"} =>
               submitsInFlight' = submitsInFlight - 1 ]_vars

\* a submit request failed and none is outstanding
C14_Witness ==
    /\ toast = "Pipeline Execution Failed"
    /\ lastRequest.op = "submit"
    /\ submitsInFlight = 0
    /\ currentRunId = NoRun

\* the entries of outputs from outer position i on, in the order they were sent:
\* source name, artifact kind and the component of the path after its last '/'
RECURSIVE ReceivedFrom(_, _)
ReceivedFrom(outputs, i) ==
    IF i > Len(outputs) THEN <<>>
    ELSE [k \in 1..Len(outputs[i][2]) |->
              << outputs[i][1], outputs[i][2][k][1], Basename(outputs[i][2][k][2]) >>]
             \o ReceivedFrom(outputs, i + 1)

\* whether a results response is shown
ResultsShown == runResultsInfo.status = "completed"

\* C15: the files shown are the entries of the last results response in the
\* order the backend sent them (outer entries in order, inner entries in order
\* within each), with the component after the last '/' as download key; for the
\* documented example these are tmplA_excel_1.xlsx, then tmplB_json_1.json.
C15_ReceivedOrder ==
    ResultsShown =>
        LET received == ReceivedFrom(resultsBody, 1)
        IN /\ Len(displayedOutputFiles) = Len(received)
           /\ \A k \in 1..Len(received) :
                  /\ displayedOutputFiles[k].templateOrigin = received[k][1]
                  /\ displayedOutputFiles[k].path = received[k][3]
           /\ resultsBody = ExampleOutputs =>
                  [k \in 1..Len(displayedOutputFiles) |-> displayedOutputFiles[k].path]
                      = << <<"t","m","p","l","A","_","e","x","c","e","l","_","1",".","x","l","s","x">>,
                           <<"t","m","p","l","B","_","j","s","o","n","_","1",".","j","s","o","n">> >>

\* how often x occurs in the sequence q
Occurrences(q, x) == Cardinality({k \in 1..Len(q) : q[k] = x})

\* source name, kind as shown and name of each file shown
ShownTriples ==
    [k \in 1..Len(displayedOutputFiles) |->
        << displayedOutputFiles[k].templateOrigin, displayedOutputFiles[k].type,
           displayedOutputFiles[k].name >>]

\* the same of each entry of the last results response
ReceivedTriples ==
    LET received == ReceivedFrom(resultsBody, 1)
    IN [k \in 1..Len(received) |->
           << received[k][1], ReadableType(received[k][2]), received[k][3] >>]

C17_NoEmptyDownloadKey ==
    \A k \in 1..Len(displayedOutputFiles) :
        displayedOutputFiles[k].path # <<>> /\ displayedOutputFiles[k].name # <<>>

\* C18: two files shown that differ in source name, kind or name differ in id.
C18_UniqueIds ==
    \A j, k \in 1..Len(displayedOutputFiles) :
        displayedOutputFiles[j].id = displayedOutputFiles[k].id =>
            ShownTriples[j] = ShownTriples[k]

\* C19: a single download is offered for saving under the download key it was
\* asked for, a bulk download under 'archive_<runId>.zip'.
C19_SuggestedName ==
    /\ save.op = "download" => save.name = save.requested
    /\ save.op = "zip" =>
           save.name = <<"a","r","c","h","i","v","e","_">> \o RunIdStr(save.run) \o <<".","z","i","p">>

\* C20: no object URL a download created is left unrevoked when its handler ends.
C20_UrlsReleased == objectUrls = 0

\* the toasts of the download handlers
DownloadToasts ==
    { "Preparing Download", "Preparing Zip Archive", "Download Started",
      "Archive Download Started", "Download Failed", "Archive Download Failed" }

\* a step of a download handler
DownloadStep == toast' \in DownloadToasts \/ downloadVars' # downloadVars

\* C21: a step of a download handler, whatever its outcome, leaves the current
\* run, the run-status snapshot, the results, the files shown, the busy flag, the
\* poll closures and the results requests under way as they are, and changes the
\* downloads under way by the one download it starts or ends only.
C21_DownloadsReadOnly ==
    [][ DownloadStep =>
          /\ UNCHANGED << currentRunId, runStatusInfo, runResultsInfo,
                          displayedOutputFiles, resultsBody, isExecuting, effectDeps,
                          loops, submitsInFlight, resultsInFlight, configLookups >>
          /\ \/ \E d \in BagToSet(downloadsInFlight') :
                    downloadsInFlight' = downloadsInFlight (+) SetToBag({d})
             \/ \E d \in BagToSet(downloadsInFlight) :
                    downloadsInFlight' = downloadsInFlight (-) SetToBag({d}) ]_vars

\* a download failed while another one awaits its response and the poll closure
\* of a later run awaits its status response
C21_Witness ==
    /\ toast = "Download Failed"
    /\ downloadsInFlight # EmptyBag
    /\ \E l \in BagToSet(loops) : l.run = currentRunId /\ l.phase = "fetching"
    /\ currentRunId # NoRun

\* the snapshot holds a terminal status response of the current run
TerminalApplied ==
    /\ currentRunId # NoRun
    /\ runStatusInfo.run_id = currentRunId
    /\ runStatusInfo.status \in {"completed", "failed"}

\* a poll closure of the current run awaits a status response or a timer
PollingCurrent == \E l \in BagToSet(loops) : l.run = currentRunId

\* C22: while the snapshot holds a completed or failed response of the current
\* run, no status request and no poll timer of that run is outstanding, and none
\* is outstanding after any further step in which the run stays the current one.
C22_TerminalStopsPolling ==
    /\ [](TerminalApplied => ~PollingCurrent)
    /\ [][ (TerminalApplied /\ currentRunId' = currentRunId) => ~PollingCurrent' ]_vars

\* the run has ended as the backend last answered: the snapshot holds that
\* answer, nothing polls, no request is under way and the page is not busy
EndedAsAnswered ==
    /\ TerminalApplied
    /\ responses # <<>>
    /\ runStatusInfo.status = responses[Len(responses)]
    /\ PollerState(Page) = (IF runStatusInfo.status = "completed"
                            THEN "TerminalCompleted" ELSE "TerminalFailed")
    /\ loops = EmptyBag
    /\ resultsInFlight = EmptyBag
    /\ ~isExecuting

\* C23: with the status endpoint stored, no reset, every request answered and a
\* backend that answers completed or failed after finitely many queued or
\* processing answers, a run that started leads to the terminal state of the
\* backend's last answer with isExecuting false, and stays there.
C23_RunTerminates == (currentRunId # NoRun) ~> [] EndedAsAnswered

\* the run ended as failed after the backend was asked MaxPolls times
C23_Witness ==
    /\ EndedAsAnswered
    /\ runStatusInfo.status = "failed"
    /\ Len(responses) = MaxPolls
    /\ getApiEndpoint(StatusKey, "GET") # NoEndpoint

\* C24: the step that sets the run identifier after a successful submit leaves a
\* status request for that run under way, issued by the effect and not by a timer.
C24_ImmediateFirstFetch ==
    [][ toast' = "Pipeline Queued" =>
          /\ currentRunId' # NoRun
          /\ \E l \in BagToSet(loops') :
                 l.run = currentRunId' /\ l.phase = "fetching" /\ l.via = "effect" ]_vars

\* C25: a snapshot written by a poll that ended in an error holds what that poll
\* produced only (the status and the stage of the error), and no field value of
\* an earlier response; of the fields modelled that is the run identifier.
C25_SnapshotReplaced ==
    runStatusInfo.status \in {"error", "config_error"} => runStatusInfo.run_id = NoRun

\* C26: every request a step issues is built from the definition that the list
\* stored at that step yields for the operation, and a status lookup fails as a
\* configuration error exactly when the list stored at that step holds no status
\* definition, whatever was stored at earlier steps.
C26_StoreReadAnew ==
    [][ endpoints' = endpoints =>
          /\ lastRequest' # lastRequest =>
                 LET r == Resolve(endpoints, KeyOf(lastRequest'.op), MethodOf(lastRequest'.op))
                 IN /\ r # NoEndpoint
                    /\ lastRequest'.ep = r.id
                    /\ StartsWith(lastRequest'.url, FASTAPI_BASE_URL \o StaticPrefix(r.path))
          /\ configLookups' > configLookups =>
                 Resolve(endpoints, StatusKey, "GET") = NoEndpoint
          /\ (runStatusInfo'.status = "config_error" /\ runStatusInfo # runStatusInfo') =>
                 Resolve(endpoints, StatusKey, "GET") = NoEndpoint ]_vars

\* the status definition was removed between two polls of a run: the first poll
\* was answered, the next one ended as a configuration error
C26_Witness ==
    /\ edits = 1
    /\ currentRunId # NoRun
    /\ runStatusInfo.status = "config_error"
    /\ runStatusInfo.run_id = currentRunId
    /\ polls = 1
    /\ loops = EmptyBag

\* something the page waits for: a submit, status or results response, or a timer
Pending == submitsInFlight > 0 \/ resultsInFlight # EmptyBag \/ loops # EmptyBag

\* C27 (state part): the page is busy only while it waits for a response or a
\* timer.
C27_BusyOnlyWhilePending == isExecuting => Pending

\* C27 (step part): a failed submit ends with isExecuting false; a failed results
\* fetch ends with isExecuting false, no results and no files shown; a results
\* fetch without a stored definition ends with isExecuting false; a failed status
\* poll leaves the snapshot in 'error' or 'config_error'.
C27_ErrorStep ==
    /\ toast' = "Pipeline Execution Failed" => ~isExecuting'
    /\ toast' = "Error Fetching Results" =>
           ~isExecuting' /\ runResultsInfo' = NullResults /\ displayedOutputFiles' = <<>>
    /\ (toast' = "API Config Error" /\ polls' > polls) => ~isExecuting'
    /\ configLookups' > configLookups => runStatusInfo'.status = "config_error"

\* C27: no error of submit, status poll or results fetch leaves the page busy
\* with nothing to wait for, and each error step leaves the state described.
C27_ErrorsLeaveDefinedState == [] C27_BusyOnlyWhilePending /\ [][C27_ErrorStep]_vars

\* the results fetch of the current run failed: nothing is shown, nothing is
\* waited for and the page is not busy
C27_Witness ==
    /\ toast = "Error Fetching Results"
    /\ runStatusInfo.status = "completed"
    /\ runStatusInfo.run_id = currentRunId
    /\ ~Pending
    /\ ~isExecuting
    /\ runResultsInfo = NullResults

\* C28: results or files that are held were fetched for the run that is current.
C28_ResultsOfCurrentRun ==
    (runResultsInfo # NullResults \/ displayedOutputFiles # <<>>) =>
        /\ currentRunId # NoRun
        /\ runResultsInfo.run_id = currentRunId
        /\ \A k \in 1..Len(displayedOutputFiles) :
               StartsWith(displayedOutputFiles[k].id, RunIdStr(currentRunId) \o <<"_">>)

\* C29: the step of a failed submit creates no run and starts no polling: the
\* current run, the snapshot, the results, the files shown, the poll closures and
\* the results requests are as before, no run identifier was handed out, and
\* isExecuting is false; when no run was created before, the current run is
\* null, snapshot and results are null, no file is shown and nothing polls.
C29_FailedSubmitCreatesNoRun ==
    [][ toast' = "Pipeline Execution Failed" =>
          /\ UNCHANGED << currentRunId, runStatusInfo, runResultsInfo,
                          displayedOutputFiles, loops, resultsInFlight, nextRun >>
          /\ ~isExecuting'
          /\ nextRun = FirstRun =>
                 /\ currentRunId' = NoRun
                 /\ runStatusInfo' = NullStatus
                 /\ runResultsInfo' = NullResults
                 /\ displayedOutputFiles' = <<>>
                 /\ loops' = EmptyBag ]_vars

\* the first submit failed
C29_Witness ==
    /\ toast = "Pipeline Execution Failed"
    /\ nextRun = FirstRun
    /\ currentRunId = NoRun
    /\ loops = EmptyBag
    /\ ~isExecuting
    /\ lastRequest.op = "submit"

\* a step of resetRunState: the current run is given up
ResetStep == currentRunId # NoRun /\ currentRunId' = NoRun

\* C30: right after resetRunState the current run, the snapshot and the results
\* are null, no file is shown, isExecuting is false, no poll timer of the run
\* that was current is pending, and the endpoint store is as before.
C30_ResetReturnsToIdle ==
    [][ ResetStep =>
          /\ runStatusInfo' = NullStatus
          /\ runResultsInfo' = NullResults
          /\ displayedOutputFiles' = <<>>
          /\ ~isExecuting'
          /\ PollerState([Page EXCEPT !.currentRunId = currentRunId',
                                      !.runStatusInfo = runStatusInfo']) = "Idle"
          /\ endpoints' = endpoints
          /\ \A l \in BagToSet(loops') :
                 l.run = currentRunId => l.phase # "timer" ]_vars

====
